---- MODULE Spec2Model ----
(***************************************************************************)
(* Model of the DataDreamers ETL orchestrator                              *)
(* (multi_agent_data_processing/multi_agent_data_processor/agent.py):      *)
(* the ETLTools job registry, the state-writing tools, the two revision    *)
(* loops, the two pipelines and the root agent's ordered conditions.       *)
(*                                                                         *)
(* Session state is a Python dict: it is modelled as a function whose      *)
(* DOMAIN is the set of keys present.  Texts are sequences of tokens: a    *)
(* token is a keyword, a run of identifier characters, or one character.   *)
(* Language-model agents are modelled as following their instruction; what *)
(* the instruction leaves to the model's judgement (is the plan            *)
(* satisfactory, did the sample run) is a nondeterministic choice.         *)
(***************************************************************************)
EXTENDS Integers, Sequences, FiniteSets, TLC

VARIABLES
    state,        \* session id -> session state dict (tool_context.state)
    job_memory,   \* etl_tools_instance.job_memory: target -> job handle
    jobs,         \* the data engine's jobs, in submission order (job id = index)
    pc,           \* session id -> agent that acts next ("idle": awaiting a user turn)
    msg,          \* session id -> the user message of the current turn
    calls,        \* session id -> pipelines / tools invoked so far in the current turn
    loop,         \* session id -> LoopAgent bookkeeping of the current invocation
    turns,        \* session id -> user turns taken
    ncalls,       \* direct tool calls made (tool-level specification)
    lastCall      \* the last ETLTools call: operation, arguments, handle polled, result

vars == <<state, job_memory, jobs, pc, msg, calls, loop, turns, ncalls, lastCall>>

----------------------------------------------------------------------------
(* Bounds *)

MaxTurns == 6
MaxJobs == 3
MaxCalls == 4

Sessions == {"s1", "s2"}
Locations == {"US", "EU"}

----------------------------------------------------------------------------
(* Dicts *)

EmptyDict == [k \in {} |-> 0]

Has(d, k) == k \in DOMAIN d

Put(d, k, v) == (k :> v) @@ d

\* dict.get(k, default)
Get(d, k, default) == IF Has(d, k) THEN d[k] ELSE default

\* Keys assigned directly with a scalar value; every other key is only ever
\* written through append_to_state and holds a list.
ScalarKeys == {"target_table_id", "target_table_name", "target_schema",
               "job_id", "job_location"}

IsList(d, k) == k \notin ScalarKeys

\* The current value of a key written through append_to_state: its last
\* element.  "unset" when the key is absent.
Cur(d, k) == IF Has(d, k) /\ Len(d[k]) > 0 THEN d[k][Len(d[k])] ELSE "unset"

----------------------------------------------------------------------------
(* append_to_state *)

\* append_to_state that stores the new output in place of the old contents
append_to_state_Overwrite(d, field, response) == Put(d, field, <<response>>)

append_to_state(d, field, response) ==
    LET got == Get(d, field, <<>>)
        existing_state == IF IsList(d, field) THEN got ELSE <<got>>
    IN  Put(d, field, existing_state \o <<response>>)

----------------------------------------------------------------------------
(* set_initial_target_table_info *)

\* \s
IsSpace(c) == c = " "

\* [\w.-] : keywords and identifier runs are made of such characters
IsWord(c) == c \notin {" ", "BQ", "(", "!"}

At(x, i, c) == i <= Len(x) /\ x[i] = c

\* F applied to the value of v: v is evaluated once, as an assignment does
Then(v, F(_)) == CHOOSE r \in {F(y) : y \in {v}} : TRUE

\* the position after the longest run of whitespace starting at i
SkipSpace(x, i) ==
    IF i > Len(x) THEN i
    ELSE CHOOSE j \in i..(Len(x) + 1) :
            /\ \A k \in i..(j - 1) : IsSpace(x[k])
            /\ j = Len(x) + 1 \/ ~IsSpace(x[j])

\* the position after the longest run of [\w.-] starting at i
WordEnd(x, i) ==
    IF i > Len(x) THEN i
    ELSE CHOOSE j \in i..(Len(x) + 1) :
            /\ \A k \in i..(j - 1) : IsWord(x[k])
            /\ j = Len(x) + 1 \/ ~IsWord(x[j])

NoMatch == [found |-> FALSE, group |-> <<>>]

\* \s+TABLE\s+BQ?([\w.-]+)BQ?\s*(?:\(|\s+AS\s+) matched at position p,
\* BQ being the backquote character
TableTail(x, p) ==
    Then(SkipSpace(x, p), LAMBDA t :
    Then(SkipSpace(x, t + 1), LAMBDA u :
    Then(IF At(x, u, "BQ") THEN u + 1 ELSE u, LAMBDA v :
    Then(WordEnd(x, v), LAMBDA w :
    Then(IF At(x, w, "BQ") THEN w + 1 ELSE w, LAMBDA y :
    Then(SkipSpace(x, y), LAMBDA z :
        IF /\ t > p /\ At(x, t, "TABLE")
           /\ u > t + 1
           /\ w > v
           /\ \/ At(x, z, "(")
              \/ z > y /\ At(x, z, "AS") /\ At(x, z + 1, " ")
        THEN [found |-> TRUE, group |-> SubSeq(x, v, w - 1)]
        ELSE NoMatch))))))

\* CREATE(?:\s+OR\s+REPLACE)?... matched with CREATE at position i: the
\* optional group is tried first, then the pattern without it
CreateTableAt(x, i) ==
    Then(SkipSpace(x, i + 1), LAMBDA b :
    Then(SkipSpace(x, b + 1), LAMBDA c :
    Then(IF b > i + 1 /\ At(x, b, "OR") /\ c > b + 1 /\ At(x, c, "REPLACE")
         THEN TableTail(x, c + 1)
         ELSE NoMatch, LAMBDA withOr :
        IF ~At(x, i, "CREATE") THEN NoMatch
        ELSE IF withOr.found THEN withOr
        ELSE TableTail(x, i + 1))))

\* re.search: the leftmost position where the pattern matches
CreateTableSearch(x) ==
    Then({i \in 1..Len(x) : CreateTableAt(x, i).found}, LAMBDA hits :
        IF hits = {} THEN NoMatch
        ELSE CreateTableAt(x, CHOOSE i \in hits : \A j \in hits : i <= j))

\* str.split()[0]; <<>> stands for the IndexError of an empty split
FirstToken(x) ==
    Then(SkipSpace(x, 1), LAMBDA s :
        IF s > Len(x) THEN <<>>
        ELSE SubSeq(x, s, (CHOOSE j \in s..(Len(x) + 1) :
                              /\ \A k \in s..(j - 1) : ~IsSpace(x[k])
                              /\ j = Len(x) + 1 \/ IsSpace(x[j])) - 1))

\* re.search(r"[\w.-]+", token)
WordSearch(x) ==
    Then({i \in 1..Len(x) : IsWord(x[i])}, LAMBDA hits :
        IF hits = {} THEN NoMatch
        ELSE Then(CHOOSE i \in hits : \A j \in hits : i <= j, LAMBDA i :
                [found |-> TRUE, group |-> SubSeq(x, i, WordEnd(x, i) - 1)]))

\* the text kept as supplied
Strip_Keep(x) == x

\* str.strip()
Strip(x) ==
    Then({i \in 1..Len(x) : ~IsSpace(x[i])}, LAMBDA keep :
        IF keep = {} THEN <<>>
        ELSE SubSeq(x, CHOOSE i \in keep : \A j \in keep : i <= j,
                       CHOOSE i \in keep : \A j \in keep : j <= i))

\* str.split('.')[-1]
LastComponent(x) ==
    Then({i \in 1..Len(x) : x[i] = "."}, LAMBDA dots :
        IF dots = {} THEN x
        ELSE SubSeq(x, (CHOOSE i \in dots : \A j \in dots : j <= i) + 1, Len(x)))

\* DATA_SOURCE, or the placeholder used when it is not set
DATASET_ID == <<"mock_project", ".", "mock_dataset">>

\* The tool's effect on the session state d, or raised = TRUE when it aborts
\* (split()[0] of a text without a token) and the state is left as it was.
set_initial_target_table_info(d, full_description) ==
    Then(CreateTableSearch(full_description), LAMBDA match :
    Then(FirstToken(full_description), LAMBDA tokens :
    Then(WordSearch(tokens), LAMBDA first_token_match :
    Then(IF match.found THEN match.group
         ELSE IF first_token_match.found THEN first_token_match.group
         ELSE DATASET_ID \o <<".", "unknown_table">>, LAMBDA full_table_id :
    Then(IF match.found \/ first_token_match.found
         THEN LastComponent(full_table_id)
         ELSE <<"unknown_table">>, LAMBDA table_name :
        IF ~match.found /\ tokens = <<>>
        THEN [raised |-> TRUE, state |-> d]
        ELSE [raised |-> FALSE,
              state |-> Put(Put(Put(d, "target_table_id", full_table_id),
                                "target_table_name", table_name),
                            "target_schema", Strip(full_description))])))))

----------------------------------------------------------------------------
(* The data engine (bigquery.Client) *)

NoJob == [job_id |-> 0, location |-> ""]

\* what client.query can do: raise, or return a job with a fresh id
QueryOutcomes ==
    {[raised |-> TRUE, location |-> ""]}
        \cup {[raised |-> FALSE, location |-> l] : l \in Locations}

\* what client.get_job can do: raise, or return a job in some state;
\* error_result "" is None
PollOutcomes ==
    {[raised |-> TRUE, state |-> "", error_result |-> "lookup failed"],
     [raised |-> FALSE, state |-> "PENDING", error_result |-> ""],
     [raised |-> FALSE, state |-> "RUNNING", error_result |-> ""],
     [raised |-> FALSE, state |-> "DONE", error_result |-> ""],
     [raised |-> FALSE, state |-> "DONE", error_result |-> "quota exceeded"]}

\* the id the engine gives to the next job
NextJobId == Len(jobs) + 1

----------------------------------------------------------------------------
(* ETLTools *)

\* create_etl_job that keeps the handle in the session state only
create_etl_job_NoMemory(mem, d, target_table, q) ==
    IF q.raised
    THEN [job_memory |-> mem, state |-> d,
          result |-> [status |-> "error", text |-> "Failed to create job",
                      detail |-> "engine error"]]
    ELSE [job_memory |-> mem,
          state |-> Put(Put(d, "job_id", NextJobId), "job_location", q.location),
          result |-> [status |-> "success", text |-> "Job successfully submitted",
                      detail |-> "remembered"]]

\* create_etl_job that keeps the first handle of a target (dict.setdefault)
create_etl_job_KeepFirst(mem, d, target_table, q) ==
    IF q.raised
    THEN [job_memory |-> mem, state |-> d,
          result |-> [status |-> "error", text |-> "Failed to create job",
                      detail |-> "engine error"]]
    ELSE [job_memory |-> IF Has(mem, target_table) THEN mem
                         ELSE Put(mem, target_table,
                                  [job_id |-> NextJobId, location |-> q.location]),
          state |-> Put(Put(d, "job_id", NextJobId), "job_location", q.location),
          result |-> [status |-> "success", text |-> "Job successfully submitted",
                      detail |-> "remembered"]]

\* create_etl_job that registers the handle before the engine has accepted the job
create_etl_job_SaveFirst(mem, d, target_table, q) ==
    [job_memory |-> Put(mem, target_table,
                        [job_id |-> NextJobId, location |-> q.location]),
     state |-> IF q.raised THEN d
               ELSE Put(Put(d, "job_id", NextJobId), "job_location", q.location),
     result |-> IF q.raised
                THEN [status |-> "error", text |-> "Failed to create job",
                      detail |-> "engine error"]
                ELSE [status |-> "success", text |-> "Job successfully submitted",
                      detail |-> "remembered"]]

\* create_etl_job that registers the handle without saving it to the session state
create_etl_job_NoMirror(mem, d, target_table, q) ==
    IF q.raised
    THEN [job_memory |-> mem, state |-> d,
          result |-> [status |-> "error", text |-> "Failed to create job",
                      detail |-> "engine error"]]
    ELSE [job_memory |-> Put(mem, target_table,
                             [job_id |-> NextJobId, location |-> q.location]),
          state |-> d,
          result |-> [status |-> "success", text |-> "Job successfully submitted",
                      detail |-> "remembered"]]

\* create_etl_job: q is the outcome of client.query.  Gives the registry and
\* the session state after the call, and the dict returned.
create_etl_job(mem, d, target_table, q) ==
    IF q.raised
    THEN [job_memory |-> mem, state |-> d,
          result |-> [status |-> "error", text |-> "Failed to create job",
                      detail |-> "engine error"]]
    ELSE LET job_info == [job_id |-> NextJobId, location |-> q.location]
         IN  [job_memory |-> Put(mem, target_table, job_info),
              state |-> Put(Put(d, "job_id", job_info.job_id),
                            "job_location", job_info.location),
              result |-> [status |-> "success",
                          text |-> "Job successfully submitted",
                          detail |-> "remembered"]]

\* the lookup without the fall-back to the session state
LookupJob_MemoryOnly(mem, d, target_table) ==
    IF Has(mem, target_table) THEN mem[target_table] ELSE NoJob

\* the handle check_etl_status looks up: memory first, then session state
LookupJob(mem, d, target_table) ==
    IF Has(mem, target_table) THEN mem[target_table]
    ELSE IF Has(d, "job_id") /\ Has(d, "job_location")
    THEN [job_id |-> d["job_id"], location |-> d["job_location"]]
    ELSE NoJob

\* StatusResult that does not look at error_result of a finished job
StatusResult_DoneIsSuccess(p) ==
    IF p.raised
    THEN [status |-> "error", text |-> "Error checking API",
          detail |-> p.error_result]
    ELSE IF p.state = "DONE"
    THEN [status |-> "success", text |-> "SUCCESS", detail |-> ""]
    ELSE [status |-> "running", text |-> "RUNNING", detail |-> p.state]

\* StatusResult without the try/except around the poll
StatusResult_NoCatch(p) ==
    IF p.raised
    THEN [status |-> "raised", text |-> "exception", detail |-> p.error_result]
    ELSE IF p.state = "DONE"
    THEN IF p.error_result # ""
         THEN [status |-> "failed", text |-> "FAILED", detail |-> p.error_result]
         ELSE [status |-> "success", text |-> "SUCCESS", detail |-> ""]
    ELSE [status |-> "running", text |-> "RUNNING", detail |-> p.state]

\* the dict returned for the job polled with outcome p
StatusResult(p) ==
    IF p.raised
    THEN [status |-> "error", text |-> "Error checking API",
          detail |-> p.error_result]
    ELSE IF p.state = "DONE"
    THEN IF p.error_result # ""
         THEN [status |-> "failed", text |-> "FAILED", detail |-> p.error_result]
         ELSE [status |-> "success", text |-> "SUCCESS", detail |-> ""]
    ELSE [status |-> "running", text |-> "RUNNING", detail |-> p.state]

\* check_etl_status: p is the outcome of client.get_job.  Gives the handle
\* polled (NoJob when none was polled) and the dict returned.
check_etl_status(mem, d, target_table, p) ==
    LET job_info == LookupJob(mem, d, target_table)
    IN  IF job_info = NoJob
        THEN [polled |-> NoJob,
              result |-> [status |-> "error", text |-> "no record of a job",
                          detail |-> "create the job first"]]
        ELSE [polled |-> job_info, result |-> StatusResult(p)]

----------------------------------------------------------------------------
(* Initial state *)

NoLoop == [name |-> "none", times_looped |-> 0, generated |-> 0,
           validated |-> 0, outcome |-> "none", ended |-> 0]

NoMsg == [kind |-> "none", text |-> <<>>]

NoPoll == [raised |-> FALSE, state |-> "", error_result |-> ""]

\* the record kept of an ETLTools call: q / p are the engine's outcomes
CallRecord(op, s, target_table, polled, p, result) ==
    [op |-> op, session |-> s, target |-> target_table, polled |-> polled,
     poll |-> IF polled = NoJob THEN NoPoll ELSE p, result |-> result]

NoCall == CallRecord("none", "none", <<>>, NoJob, NoPoll,
                     [status |-> "none", text |-> "", detail |-> ""])

Init ==
    /\ state = [s \in Sessions |-> EmptyDict]
    /\ job_memory = EmptyDict
    /\ jobs = <<>>
    /\ pc = [s \in Sessions |-> "idle"]
    /\ msg = [s \in Sessions |-> NoMsg]
    /\ calls = [s \in Sessions |-> <<>>]
    /\ loop = [s \in Sessions |-> NoLoop]
    /\ turns = [s \in Sessions |-> 0]
    /\ ncalls = 0
    /\ lastCall = NoCall

----------------------------------------------------------------------------
(* The ETLTools methods called directly: any session, any target *)

RegTargets == {<<"p", ".", "a">>, <<"b">>}

\* the engine's record of a job: who submitted it, for which target
JobRecord(s, target_table, q) ==
    [session |-> s, target |-> target_table, location |-> q.location]

SubmitCall(s, target_table) ==
    /\ ncalls < MaxCalls
    /\ \E q \in QueryOutcomes :
          LET r == create_etl_job(job_memory, state[s], target_table, q)
          IN  /\ q.raised \/ Len(jobs) < MaxJobs
              /\ job_memory' = r.job_memory
              /\ state' = [state EXCEPT ![s] = r.state]
              /\ jobs' = IF q.raised THEN jobs
                         ELSE Append(jobs, JobRecord(s, target_table, q))
              /\ lastCall' = CallRecord("create_etl_job", s, target_table,
                                         NoJob, NoPoll, r.result)
    /\ ncalls' = ncalls + 1
    /\ UNCHANGED <<pc, msg, calls, loop, turns>>

\* a status call that caches the handle it polled in the registry
StatusCall_Caching(s, target_table) ==
    /\ ncalls < MaxCalls
    /\ \E p \in PollOutcomes :
          LET r == check_etl_status(job_memory, state[s], target_table, p)
          IN  /\ lastCall' = CallRecord("check_etl_status", s, target_table,
                                         r.polled, p, r.result)
              /\ job_memory' = IF r.polled = NoJob THEN job_memory
                                ELSE Put(job_memory, target_table, r.polled)
    /\ ncalls' = ncalls + 1
    /\ UNCHANGED <<state, jobs, pc, msg, calls, loop, turns>>

StatusCall(s, target_table) ==
    /\ ncalls < MaxCalls
    /\ \E p \in PollOutcomes :
          LET r == check_etl_status(job_memory, state[s], target_table, p)
          IN  lastCall' = CallRecord("check_etl_status", s, target_table,
                                     r.polled, p, r.result)
    /\ ncalls' = ncalls + 1
    /\ UNCHANGED <<state, job_memory, jobs, pc, msg, calls, loop, turns>>

NextReg ==
    \/ \E s \in Sessions, t \in RegTargets : SubmitCall(s, t)
    \/ \E s \in Sessions, t \in RegTargets : StatusCall(s, t)

SpecReg == Init /\ [][NextReg]_vars

\* The process is restarted: etl_tools_instance is a fresh ETLTools with an
\* empty job_memory; the sessions' state and the engine's jobs persist.
Restart ==
    /\ job_memory # EmptyDict
    /\ job_memory' = EmptyDict
    /\ lastCall' = NoCall
    /\ UNCHANGED <<state, jobs, pc, msg, calls, loop, turns, ncalls>>

NextRestart ==
    \/ \E s \in Sessions, t \in RegTargets : SubmitCall(s, t)
    \/ \E s \in Sessions, t \in RegTargets : StatusCall(s, t)
    \/ Restart

SpecRestart == Init /\ [][NextRestart]_vars

----------------------------------------------------------------------------
(* User messages *)

\* What a message is about, as the agents read it: an approval, feedback on
\* the plan, feedback on the SQL sample, a status request, or, as long as the
\* session has no target schema, the text the user offers as the schema.
Kinds == {"yes", "plan_feedback", "sql_feedback", "status"}

TextOf(kind) ==
    CASE kind = "yes" -> <<"yes">>
      [] kind = "plan_feedback" -> <<"fix", " ", "plan">>
      [] kind = "sql_feedback" -> <<"fix", " ", "sql">>
      [] kind = "status" -> <<"status", "!">>

SchemaTexts ==
    {<<"CREATE", " ", "TABLE", " ", "p", ".", "a", " ", "(">>,
     <<" ", "p", ".", "b", " ">>,
     <<"!", " ", "b">>,
     <<" ">>}

Messages ==
    {[kind |-> k, text |-> TextOf(k)] : k \in Kinds}
        \cup {[kind |-> "schema", text |-> t] : t \in SchemaTexts}

----------------------------------------------------------------------------
(* LoopAgent *)

plan_revision_loop == [name |-> "plan_revision_loop", max_iterations |-> 2]

sql_revision_loop == [name |-> "sql_revision_loop", max_iterations |-> 2]

\* the loop agent starts: no pass made yet
LoopStart(cfg) ==
    [name |-> cfg.name, times_looped |-> 0, generated |-> 0, validated |-> 0,
     outcome |-> "running", ended |-> 0]

\* LoopAfterPass with the iteration test off by one
LoopAfterPass_OffByOne(l, cfg, escalate) ==
    IF escalate
    THEN [l EXCEPT !.outcome = "Exited", !.ended = @ + 1]
    ELSE IF l.times_looped + 1 <= cfg.max_iterations
    THEN [l EXCEPT !.times_looped = @ + 1]
    ELSE [l EXCEPT !.times_looped = @ + 1, !.outcome = "Exhausted",
                   !.ended = @ + 1]

\* LoopAfterPass that does not look at the escalation of exit_loop
LoopAfterPass_NoExit(l, cfg, escalate) ==
    IF l.times_looped + 1 < cfg.max_iterations
    THEN [l EXCEPT !.times_looped = @ + 1]
    ELSE [l EXCEPT !.times_looped = @ + 1, !.outcome = "Exhausted",
                   !.ended = @ + 1]

\* The loop after one pass over its sub-agents.  escalate: the validate step
\* called exit_loop.  Otherwise the pass is counted, and the loop goes on
\* while times_looped < max_iterations.
LoopAfterPass(l, cfg, escalate) ==
    IF escalate
    THEN [l EXCEPT !.outcome = "Exited", !.ended = @ + 1]
    ELSE IF l.times_looped + 1 < cfg.max_iterations
    THEN [l EXCEPT !.times_looped = @ + 1]
    ELSE [l EXCEPT !.times_looped = @ + 1, !.outcome = "Exhausted",
                   !.ended = @ + 1]

----------------------------------------------------------------------------
(* root_agent: the ordered conditions *)

Cond1(d) == ~Has(d, "target_schema_requested")

\* condition 2 without the test that target_schema is not set
Cond2_Requested(d) == Cur(d, "target_schema_requested") = "True"

Cond2(d) == ~Has(d, "target_schema") /\ Cur(d, "target_schema_requested") = "True"

Cond3(d) == Has(d, "target_schema") /\ ~Has(d, "plan_approved")

Cond4(m) == m.kind = "plan_feedback"

Cond5(d) == Cur(d, "plan_approved") = "True" /\ ~Has(d, "sample_approved")

Cond6(m) == m.kind = "sql_feedback"

\* condition 7 without the test of sample_approved
Cond7_PlanOnly(d) == Cur(d, "plan_approved") = "True"

Cond7(d) == Cur(d, "plan_approved") = "True" /\ Cur(d, "sample_approved") = "True"

Cond8(d) == Has(d, "job_id")

\* the conditions with step 5 tried before step 4
FirstMatch_SqlFirst(d, m) ==
    IF Cond1(d) THEN 1
    ELSE IF Cond2(d) THEN 2
    ELSE IF Cond3(d) THEN 3
    ELSE IF Cond5(d) THEN 5
    ELSE IF Cond4(m) THEN 4
    ELSE IF Cond6(m) THEN 6
    ELSE IF Cond7(d) THEN 7
    ELSE IF Cond8(d) THEN 8
    ELSE 0

\* the first step whose condition matches, 0 when none does
FirstMatch(d, m) ==
    IF Cond1(d) THEN 1
    ELSE IF Cond2(d) THEN 2
    ELSE IF Cond3(d) THEN 3
    ELSE IF Cond4(m) THEN 4
    ELSE IF Cond5(d) THEN 5
    ELSE IF Cond6(m) THEN 6
    ELSE IF Cond7(d) THEN 7
    ELSE IF Cond8(d) THEN 8
    ELSE 0

\* a user turn arrives for session s and step k is the first that matches
TurnStarts(s, m, k) ==
    /\ pc[s] = "idle"
    /\ turns[s] < MaxTurns
    /\ m.kind = "schema" <=> ~Has(state[s], "target_schema")
    /\ FirstMatch(state[s], m) = k
    /\ turns' = [turns EXCEPT ![s] = @ + 1]
    /\ msg' = [msg EXCEPT ![s] = m]

\* 1. INITIAL GREETING & START
Greeting(s, m) ==
    /\ TurnStarts(s, m, 1)
    /\ state' = [state EXCEPT ![s] =
                    append_to_state(@, "target_schema_requested", "True")]
    /\ calls' = [calls EXCEPT ![s] = <<>>]
    /\ UNCHANGED <<pc, job_memory, jobs, loop, ncalls, lastCall>>

\* 2. SCHEMA CAPTURE, and "after that proceed to step 3"
SchemaCapture(s, m) ==
    /\ TurnStarts(s, m, 2)
    /\ LET r == set_initial_target_table_info(state[s], m.text)
       IN  /\ state' = [state EXCEPT ![s] = r.state]
           /\ pc' = [pc EXCEPT ![s] = IF r.raised THEN "idle" ELSE "step3"]
    /\ calls' = [calls EXCEPT ![s] = <<"set_initial_target_table_info">>]
    /\ UNCHANGED <<job_memory, jobs, loop, ncalls, lastCall>>

\* 3. PLANNING & VALIDATION
Planning(s) ==
    /\ pc[s] = "step3"
    /\ pc' = [pc EXCEPT ![s] = IF Cond3(state[s])
                               THEN "table_discovery_agent" ELSE "idle"]
    /\ calls' = [calls EXCEPT ![s] = IF Cond3(state[s])
                                     THEN Append(@, "etl_planning_pipeline")
                                     ELSE @]
    /\ UNCHANGED <<state, job_memory, jobs, msg, loop, turns, ncalls, lastCall>>

\* 4. PLAN REVISION (from user feedback)
PlanRevision(s, m) ==
    /\ TurnStarts(s, m, 4)
    /\ state' = [state EXCEPT ![s] =
                    append_to_state(append_to_state(@, "plan_feedback", m.text),
                                    "plan_approved", "revise")]
    /\ pc' = [pc EXCEPT ![s] = "table_discovery_agent"]
    /\ calls' = [calls EXCEPT ![s] = <<"etl_planning_pipeline">>]
    /\ UNCHANGED <<job_memory, jobs, loop, ncalls, lastCall>>

\* 5. SQL GENERATION & SAMPLING
SqlGenerationStep(s, m) ==
    /\ TurnStarts(s, m, 5)
    /\ pc' = [pc EXCEPT ![s] = "sql_generation_agent"]
    /\ loop' = [loop EXCEPT ![s] = LoopStart(sql_revision_loop)]
    /\ calls' = [calls EXCEPT ![s] = <<"etl_execution_pipeline">>]
    /\ UNCHANGED <<state, job_memory, jobs, ncalls, lastCall>>

\* 6. SQL REVISION (from user feedback)
SqlRevision(s, m) ==
    /\ TurnStarts(s, m, 6)
    /\ state' = [state EXCEPT ![s] =
                    append_to_state(append_to_state(@, "sql_feedback", m.text),
                                    "sample_approved", "refine")]
    /\ pc' = [pc EXCEPT ![s] = "sql_generation_agent"]
    /\ loop' = [loop EXCEPT ![s] = LoopStart(sql_revision_loop)]
    /\ calls' = [calls EXCEPT ![s] = <<"etl_execution_pipeline">>]
    /\ UNCHANGED <<job_memory, jobs, ncalls, lastCall>>

\* step 7 without the nested test that job_id is not set
FinalExecutionStep_Resubmit(s, m) ==
    /\ TurnStarts(s, m, 7)
    /\ pc' = [pc EXCEPT ![s] = "final_execution_agent"]
    /\ calls' = [calls EXCEPT ![s] = <<>>]
    /\ UNCHANGED <<state, job_memory, jobs, loop, ncalls, lastCall>>

\* 7. FINAL EXECUTION & STATUS
FinalExecutionStep(s, m) ==
    /\ TurnStarts(s, m, 7)
    /\ pc' = [pc EXCEPT ![s] = IF ~Has(state[s], "job_id")
                               THEN "final_execution_agent" ELSE "idle"]
    /\ calls' = [calls EXCEPT ![s] = <<>>]
    /\ UNCHANGED <<state, job_memory, jobs, loop, ncalls, lastCall>>

\* 8. EXECUTION STATUS CHECK
StatusCheckStep(s, m) ==
    /\ TurnStarts(s, m, 8)
    /\ pc' = [pc EXCEPT ![s] = IF m.kind = "status"
                               THEN "job_status_agent" ELSE "idle"]
    /\ calls' = [calls EXCEPT ![s] = <<>>]
    /\ UNCHANGED <<state, job_memory, jobs, loop, ncalls, lastCall>>

\* no step matches: the turn ends without a pipeline or a tool call
NoStep(s, m) ==
    /\ TurnStarts(s, m, 0)
    /\ calls' = [calls EXCEPT ![s] = <<>>]
    /\ UNCHANGED <<state, job_memory, jobs, pc, loop, ncalls, lastCall>>

----------------------------------------------------------------------------
(* etl_planning_pipeline *)

\* a sub-agent of session s finishes its run: the state it leaves and who acts next
AgentStep(s, agent, d, next) ==
    /\ pc[s] = agent
    /\ state' = [state EXCEPT ![s] = d]
    /\ pc' = [pc EXCEPT ![s] = next]

\* a loop that hands over to the confirmation step after its first pass
AfterPass_ConfirmEarly(l, generate, confirm) == confirm

\* where a revision loop hands over after a pass
AfterPass(l, generate, confirm) ==
    IF l.outcome = "running" THEN generate ELSE confirm

table_discovery_agent(s) ==
    /\ AgentStep(s, "table_discovery_agent",
                 append_to_state(state[s], "source_tables", <<"tables">>),
                 "transformation_planning_agent")
    /\ loop' = [loop EXCEPT ![s] = LoopStart(plan_revision_loop)]
    /\ UNCHANGED <<job_memory, jobs, msg, calls, turns, ncalls, lastCall>>

\* The state after the planning agent's run.  It is told to clear
\* plan_feedback after using it, but none of its tools (the BigQuery read
\* tools, append_to_state) removes or empties a key: it can only add the plan.
\* With feedback in the state the plan it saves is a revision of the previous
\* one, without feedback the first version.
PlanningWrites(d) ==
    append_to_state(d, "transformation_plan",
                    IF Has(d, "plan_feedback") THEN <<"revised", " ", "plan">>
                    ELSE <<"plan">>)

transformation_planning_agent(s) ==
    /\ AgentStep(s, "transformation_planning_agent",
                 PlanningWrites(state[s]), "plan_validation_agent")
    /\ loop' = [loop EXCEPT ![s].generated = @ + 1]
    /\ UNCHANGED <<job_memory, jobs, msg, calls, turns, ncalls, lastCall>>

\* a plan validator that asks for a revision without saving its feedback
PlanValidationWrites_NoFeedback(d, satisfactory) ==
    IF satisfactory
    THEN append_to_state(d, "plan_approved", "True")
    ELSE append_to_state(d, "plan_approved", "revise")

\* the state after the plan validator's run
PlanValidationWrites(d, satisfactory) ==
    IF satisfactory
    THEN append_to_state(d, "plan_approved", "True")
    ELSE append_to_state(append_to_state(d, "plan_feedback", <<"critique">>),
                         "plan_approved", "revise")

plan_validation_agent(s) ==
    \E satisfactory \in BOOLEAN :
        LET l == LoopAfterPass([loop[s] EXCEPT !.validated = @ + 1],
                               plan_revision_loop, satisfactory)
        IN  /\ AgentStep(s, "plan_validation_agent",
                         PlanValidationWrites(state[s], satisfactory),
                         AfterPass(l, "transformation_planning_agent",
                                   "plan_confirmation_agent"))
            /\ loop' = [loop EXCEPT ![s] = l]
            /\ UNCHANGED <<job_memory, jobs, msg, calls, turns, ncalls, lastCall>>

\* the confirmation step handing over to the execution pipeline in the same turn
plan_confirmation_agent_Chained(s) ==
    /\ AgentStep(s, "plan_confirmation_agent", state[s],
                 IF Cur(state[s], "plan_approved") = "True"
                 THEN "sql_generation_agent" ELSE "idle")
    /\ calls' = [calls EXCEPT ![s] =
                    IF Cur(state[s], "plan_approved") = "True"
                    THEN Append(@, "etl_execution_pipeline") ELSE @]
    /\ loop' = [loop EXCEPT ![s] = LoopStart(sql_revision_loop)]
    /\ UNCHANGED <<job_memory, jobs, msg, turns, ncalls, lastCall>>

plan_confirmation_agent(s) ==
    /\ AgentStep(s, "plan_confirmation_agent", state[s], "idle")
    /\ UNCHANGED <<job_memory, jobs, msg, calls, loop, turns, ncalls, lastCall>>

----------------------------------------------------------------------------
(* etl_execution_pipeline *)

\* the state after the SQL generator's run: with sql_feedback in the state
\* the query it saves is a revision of the previous one
SqlGenerationWrites(d) ==
    append_to_state(d, "sql_query",
                    IF Has(d, "sql_feedback") THEN <<"revised", " ", "select">>
                    ELSE <<"select">>)

sql_generation_agent(s) ==
    /\ AgentStep(s, "sql_generation_agent",
                 SqlGenerationWrites(state[s]), "sql_validation_agent")
    /\ loop' = [loop EXCEPT ![s].generated = @ + 1]
    /\ UNCHANGED <<job_memory, jobs, msg, calls, turns, ncalls, lastCall>>

\* an SQL validator that asks for a revision without saving the error
SqlValidationWrites_NoFeedback(d, succeeded) ==
    IF succeeded
    THEN append_to_state(append_to_state(d, "sql_sample_data", <<"rows">>),
                         "sample_approved", "True")
    ELSE append_to_state(d, "sample_approved", "refine")

\* the state after the SQL validator's run; succeeded: execute_sql returned rows
SqlValidationWrites(d, succeeded) ==
    IF succeeded
    THEN append_to_state(append_to_state(d, "sql_sample_data", <<"rows">>),
                         "sample_approved", "True")
    ELSE append_to_state(append_to_state(d, "sql_feedback", <<"error">>),
                         "sample_approved", "refine")

sql_validation_agent(s) ==
    \E succeeded \in BOOLEAN :
        LET l == LoopAfterPass([loop[s] EXCEPT !.validated = @ + 1],
                               sql_revision_loop, succeeded)
        IN  /\ AgentStep(s, "sql_validation_agent",
                         SqlValidationWrites(state[s], succeeded),
                         AfterPass(l, "sql_generation_agent",
                                   "sql_confirmation_agent"))
            /\ loop' = [loop EXCEPT ![s] = l]
            /\ UNCHANGED <<job_memory, jobs, msg, calls, turns, ncalls, lastCall>>

sql_confirmation_agent(s) ==
    /\ AgentStep(s, "sql_confirmation_agent", state[s], "idle")
    /\ UNCHANGED <<job_memory, jobs, msg, calls, loop, turns, ncalls, lastCall>>

----------------------------------------------------------------------------
(* final_execution_agent and job_status_agent *)

final_execution_agent(s) ==
    /\ \E q \in QueryOutcomes :
          LET target_table == state[s]["target_table_id"]
              r == create_etl_job(job_memory, state[s], target_table, q)
          IN  /\ q.raised \/ Len(jobs) < MaxJobs
              /\ AgentStep(s, "final_execution_agent", r.state, "idle")
              /\ job_memory' = r.job_memory
              /\ jobs' = IF q.raised THEN jobs
                         ELSE Append(jobs, JobRecord(s, target_table, q))
              /\ lastCall' = CallRecord("create_etl_job", s, target_table,
                                         NoJob, NoPoll, r.result)
    /\ calls' = [calls EXCEPT ![s] = Append(@, "create_etl_job")]
    /\ UNCHANGED <<msg, loop, turns, ncalls>>

job_status_agent(s) ==
    /\ \E p \in PollOutcomes :
          LET target_table == state[s]["target_table_id"]
              r == check_etl_status(job_memory, state[s], target_table, p)
          IN  /\ AgentStep(s, "job_status_agent", state[s], "idle")
              /\ lastCall' = CallRecord("check_etl_status", s, target_table,
                                         r.polled, p, r.result)
    /\ calls' = [calls EXCEPT ![s] = Append(@, "check_etl_status")]
    /\ UNCHANGED <<job_memory, jobs, msg, loop, turns, ncalls>>

----------------------------------------------------------------------------
(* One session converses with the orchestrator, turn after turn *)

Conversing == {"s1"}

Next ==
    \/ \E s \in Conversing, m \in Messages : Greeting(s, m)
    \/ \E s \in Conversing, m \in Messages : SchemaCapture(s, m)
    \/ \E s \in Conversing : Planning(s)
    \/ \E s \in Conversing, m \in Messages : PlanRevision(s, m)
    \/ \E s \in Conversing, m \in Messages : SqlGenerationStep(s, m)
    \/ \E s \in Conversing, m \in Messages : SqlRevision(s, m)
    \/ \E s \in Conversing, m \in Messages : FinalExecutionStep(s, m)
    \/ \E s \in Conversing, m \in Messages : StatusCheckStep(s, m)
    \/ \E s \in Conversing, m \in Messages : NoStep(s, m)
    \/ \E s \in Conversing : table_discovery_agent(s)
    \/ \E s \in Conversing : transformation_planning_agent(s)
    \/ \E s \in Conversing : plan_validation_agent(s)
    \/ \E s \in Conversing : plan_confirmation_agent(s)
    \/ \E s \in Conversing : sql_generation_agent(s)
    \/ \E s \in Conversing : sql_validation_agent(s)
    \/ \E s \in Conversing : sql_confirmation_agent(s)
    \/ \E s \in Conversing : final_execution_agent(s)
    \/ \E s \in Conversing : job_status_agent(s)

Spec == Init /\ [][Next]_vars

----------------------------------------------------------------------------
(* Properties *)

Range(f) == {f[i] : i \in DOMAIN f}

Pipelines == {"etl_planning_pipeline", "etl_execution_pipeline"}

ToolCalls == {"set_initial_target_table_info", "create_etl_job", "check_etl_status"}

Count(f, S) == Cardinality({i \in DOMAIN f : f[i] \in S})

LoopConfig(name) ==
    IF name = "plan_revision_loop" THEN plan_revision_loop ELSE sql_revision_loop

\* the approval key a revision loop's validate step writes
ApprovalKey(name) ==
    IF name = "plan_revision_loop" THEN "plan_approved" ELSE "sample_approved"

GenerateAgents == {"transformation_planning_agent", "sql_generation_agent"}

\* the engine's jobs submitted for target t
JobsFor(t) == {j \in 1..Len(jobs) : jobs[j].target = t}

Submitted(t) == JobsFor(t) # {}

Latest(t) == CHOOSE j \in JobsFor(t) : \A k \in JobsFor(t) : k <= j

IsCheck == lastCall.op = "check_etl_status"

UnknownTarget == lastCall.result.text = "no record of a job"

C2_LoopBounded ==
    \A s \in Sessions :
        loop[s].name # "none" =>
            LET N == LoopConfig(loop[s].name).max_iterations
            IN  /\ loop[s].generated <= N
                /\ loop[s].validated <= N
                /\ loop[s].ended <= 1
                /\ (loop[s].validated = N /\ loop[s].outcome # "Exited") =>
                      loop[s].outcome = "Exhausted"
                /\ loop[s].outcome = "Exhausted" =>
                      /\ loop[s].generated = N
                      /\ loop[s].validated = N
                      /\ loop[s].times_looped = N
                      /\ loop[s].ended = 1
                      /\ pc[s] \notin GenerateAgents
                      /\ Cur(state[s], ApprovalKey(loop[s].name)) # "True"

C2_Witness ==
    \E s \in Sessions :
        /\ loop[s].outcome = "Exhausted"
        /\ pc[s] = "sql_confirmation_agent"
        /\ Cur(state[s], "sample_approved") = "refine"

\* C3: create_etl_job is called only with plan_approved and sample_approved
\* both approved; while the last execution pipeline run ended Exhausted the
\* session does not reach the final execution.
C3_SubmitOnlyWhenApproved ==
    \A s \in Sessions :
        /\ (pc[s] = "final_execution_agent" \/ "create_etl_job" \in Range(calls[s])) =>
              /\ Cur(state[s], "plan_approved") = "True"
              /\ Cur(state[s], "sample_approved") = "True"
        /\ (loop[s].name = "sql_revision_loop" /\ loop[s].outcome = "Exhausted") =>
              /\ pc[s] # "final_execution_agent"
              /\ "create_etl_job" \notin Range(calls[s])

\* a job is submitted in a session whose SQL loop had ended Exhausted before
C3_Witness ==
    \E s \in Sessions :
        /\ "create_etl_job" \in Range(calls[s])
        /\ lastCall.result.status = "success"
        /\ Has(state[s], "sql_feedback")
        /\ \E i \in 1..(Len(state[s]["sample_approved"]) - 1) :
              /\ state[s]["sample_approved"][i] = "refine"
              /\ state[s]["sample_approved"][i + 1] = "refine"

\* C4 (as claimed): check_etl_status for a target no job was successfully
\* submitted for returns the unknown-target error and polls no job.
C4_UnknownBeforeSubmit ==
    (IsCheck /\ ~Submitted(lastCall.target)) =>
        (UnknownTarget /\ lastCall.polled = NoJob)

\* C5: once a job was successfully submitted for a target, no later
\* check_etl_status for that target returns the unknown-target error.
C5_KnownAfterSubmit ==
    (IsCheck /\ Submitted(lastCall.target)) =>
        (~UnknownTarget /\ lastCall.polled # NoJob)

\* the status is asked by a session that submitted nothing for the target
C5_Witness ==
    /\ IsCheck
    /\ Submitted(lastCall.target)
    /\ \A j \in JobsFor(lastCall.target) : jobs[j].session # lastCall.session
    /\ ~UnknownTarget

C7_LastSubmitWins ==
    /\ \A t \in RegTargets : Submitted(t) <=> Has(job_memory, t)
    /\ \A t \in DOMAIN job_memory :
          /\ Submitted(t)
          /\ job_memory[t] = [job_id |-> Latest(t),
                              location |-> jobs[Latest(t)].location]
    /\ (IsCheck /\ Submitted(lastCall.target)) =>
          lastCall.polled = [job_id |-> Latest(lastCall.target),
                             location |-> jobs[Latest(lastCall.target)].location]

\* the status is asked after two successful submissions for the target
C7_Witness ==
    /\ IsCheck
    /\ Cardinality(JobsFor(lastCall.target)) >= 2
    /\ lastCall.polled.job_id = Latest(lastCall.target)
    /\ \E j \in JobsFor(lastCall.target) :
          j # Latest(lastCall.target) /\ jobs[j].location # lastCall.polled.location

\* a create_etl_job call the engine refuses is made in this step
SubmitRefused ==
    /\ lastCall'.op = "create_etl_job"
    /\ ncalls' = ncalls + 1
    /\ jobs' = jobs

\* C8: a create_etl_job whose engine call fails returns an error result and
\* leaves the registry and the session state as they were; the registry
\* holds a handle only for a target with a successful submission.
C8_FailedSubmitChangesNothing ==
    /\ [](\A t \in DOMAIN job_memory : Submitted(t))
    /\ [][SubmitRefused =>
            /\ lastCall'.result.status = "error"
            /\ job_memory' = job_memory
            /\ state' = state]_vars

\* a refused submission for a target that has a handle, in a session with a job_id
C8_Witness ==
    /\ lastCall.op = "create_etl_job"
    /\ lastCall.result.status = "error"
    /\ Has(job_memory, lastCall.target)
    /\ Has(state[lastCall.session], "job_id")

\* C9 (as claimed): a session that submitted a job for a target gets, from
\* check_etl_status for that target, the status of a job it submitted itself.
C9_OwnJobOnly ==
    (/\ IsCheck
     /\ \E j \in JobsFor(lastCall.target) : jobs[j].session = lastCall.session) =>
        /\ lastCall.polled # NoJob
        /\ jobs[lastCall.polled.job_id].session = lastCall.session

\* C10 (as claimed): a planning pipeline invocation that starts with
\* plan_approved = revise starts with plan_feedback non-empty and completes
\* with plan_feedback cleared.
C10_FeedbackCleared ==
    \A s \in Sessions :
        /\ (pc[s] = "table_discovery_agent" /\ Cur(state[s], "plan_approved") = "revise") =>
              (Has(state[s], "plan_feedback") /\ state[s]["plan_feedback"] # <<>>)
        /\ (pc[s] = "idle" /\ calls[s] = <<"etl_planning_pipeline">>) =>
              (~Has(state[s], "plan_feedback") \/ state[s]["plan_feedback"] = <<>>)

\* C11: plan_approved is unset, approved or revise (every value the
\* state-writing tool stored under it is one of the two, the current one is
\* the last), and while it is revise plan_feedback is present.
C11_PlanApprovedTriState ==
    \A s \in Sessions :
        /\ Has(state[s], "plan_approved") =>
              /\ state[s]["plan_approved"] # <<>>
              /\ Range(state[s]["plan_approved"]) \subseteq {"True", "revise"}
        /\ Cur(state[s], "plan_approved") \in {"unset", "True", "revise"}
        /\ Cur(state[s], "plan_approved") = "revise" =>
              /\ Has(state[s], "plan_feedback")
              /\ state[s]["plan_feedback"] # <<>>

\* revise is current, written once by the validator and once by the orchestrator
C11_Witness ==
    \E s \in Sessions :
        /\ Cur(state[s], "plan_approved") = "revise"
        /\ <<"critique">> \in Range(state[s]["plan_feedback"])
        /\ TextOf("plan_feedback") \in Range(state[s]["plan_feedback"])

\* C12: while sample_approved is refine, sql_feedback is present, whether
\* refine was written by sql_validation_agent or by the orchestrator.
C12_RefineHasFeedback ==
    \A s \in Sessions :
        /\ Has(state[s], "sample_approved") =>
              Range(state[s]["sample_approved"]) \subseteq {"True", "refine"}
        /\ Cur(state[s], "sample_approved") = "refine" =>
              /\ Has(state[s], "sql_feedback")
              /\ state[s]["sql_feedback"] # <<>>

\* refine is current; the validator and the orchestrator have each written it
C12_Witness ==
    \E s \in Sessions :
        /\ Cur(state[s], "sample_approved") = "refine"
        /\ <<"error">> \in Range(state[s]["sql_feedback"])
        /\ TextOf("sql_feedback") \in Range(state[s]["sql_feedback"])

IsPrefix(a, b) == Len(a) <= Len(b) /\ SubSeq(b, 1, Len(a)) = a

RevisionKeys == {"transformation_plan", "sql_query"}

\* C13: transformation_plan and sql_query are append-only: a step that
\* changes one of them keeps its previous contents as a prefix and adds one
\* element at the end, which is the current revision.
C13_RevisionsAppendOnly ==
    [][\A s \in Sessions, k \in RevisionKeys :
          LET old == Get(state[s], k, <<>>)
              new == Get(state'[s], k, <<>>)
          IN  /\ Has(state[s], k) => Has(state'[s], k)
              /\ IsPrefix(old, new)
              /\ new # old =>
                    /\ Len(new) = Len(old) + 1
                    /\ Cur(state'[s], k) = new[Len(old) + 1]]_vars

\* three plan revisions and two query revisions have been saved
C13_Witness ==
    \E s \in Sessions :
        /\ Has(state[s], "transformation_plan")
        /\ Len(state[s]["transformation_plan"]) >= 3
        /\ state[s]["transformation_plan"][1] = <<"plan">>
        /\ Cur(state[s], "transformation_plan") = <<"revised", " ", "plan">>
        /\ Has(state[s], "sql_query")
        /\ Len(state[s]["sql_query"]) >= 2

SchemaKeys == {"target_schema", "target_table_id", "target_table_name"}

\* C14: once target_schema is set, no step changes target_schema,
\* target_table_id or target_table_name.
C14_SchemaSetOnce ==
    [][\A s \in Sessions :
          Has(state[s], "target_schema") =>
              \A k \in SchemaKeys :
                  /\ Has(state[s], k)
                  /\ Has(state'[s], k)
                  /\ state'[s][k] = state[s][k]]_vars

\* the schema is still the one captured, five turns on, with a job submitted
C14_Witness ==
    \E s \in Sessions :
        /\ turns[s] >= 5
        /\ Has(state[s], "job_id")
        /\ state[s]["target_schema"] = <<"!", " ", "b">>
        /\ state[s]["target_table_name"] = <<"unknown_table">>

\* the turn of session s began with the schema capture step
SchemaCaptured(s) ==
    calls[s] # <<>> /\ calls[s][1] = "set_initial_target_table_info"

\* C15 (as claimed): for every schema text, set_initial_target_table_info
\* does not abort and leaves target_table_id, target_table_name and
\* target_schema set.
C15_SchemaCaptureNeverAborts ==
    \A s \in Sessions :
        SchemaCaptured(s) =>
            /\ SchemaKeys \subseteq DOMAIN state[s]
            /\ "etl_planning_pipeline" \in Range(calls[s])

\* C16 (as claimed): a turn that asks for the status with the plan and the
\* sample approved and no job submitted reports "no job found"; it does not
\* submit a job in place of answering.  (No pipeline ran in the turn, so the
\* approvals are those the turn began with.)
C16_StatusBeforeSubmitReportsNoJob ==
    \A s \in Sessions :
        (/\ msg[s].kind = "status"
         /\ Range(calls[s]) \cap Pipelines = {}
         /\ Cur(state[s], "plan_approved") = "True"
         /\ Cur(state[s], "sample_approved") = "True") =>
            /\ pc[s] # "final_execution_agent"
            /\ "create_etl_job" \notin Range(calls[s])
            /\ (pc[s] = "idle" /\ ~Has(state[s], "job_id")) =>
                  /\ calls[s] = <<"check_etl_status">>
                  /\ UnknownTarget

\* the jobs in js that session s submitted
SessionJobs(js, s) == {j \in 1..Len(js) : js[j].session = s}

\* C17: final_execution_agent runs only while job_id is unset; once job_id
\* is set no step of the session submits another job, so a conversation
\* submits at most one job.
C17_NoDoubleSubmit ==
    /\ [](\A s \in Conversing :
             /\ pc[s] = "final_execution_agent" => ~Has(state[s], "job_id")
             /\ Cardinality(SessionJobs(jobs, s)) <= 1
             /\ Has(state[s], "job_id") <=> SessionJobs(jobs, s) # {})
    /\ [][\A s \in Conversing :
             Has(state[s], "job_id") =>
                 /\ SessionJobs(jobs', s) = SessionJobs(jobs, s)
                 /\ state'[s]["job_id"] = state[s]["job_id"]
                 /\ pc'[s] # "final_execution_agent"]_vars

\* with the job submitted, a later turn matched step 7 again and submitted nothing
C17_Witness ==
    \E s \in Conversing :
        /\ Has(state[s], "job_id")
        /\ msg[s].kind = "yes"
        /\ Cur(state[s], "plan_approved") = "True"
        /\ Cur(state[s], "sample_approved") = "True"
        /\ pc[s] = "idle"
        /\ calls[s] = <<>>

\* C18 (as claimed): with job_id set, a turn in which the user asks for the
\* status queries the job registry and reports, and invokes no pipeline.
C18_StatusAnsweredInMonitoring ==
    \A s \in Sessions :
        (/\ msg[s].kind = "status"
         /\ Has(state[s], "job_id")
         /\ "create_etl_job" \notin Range(calls[s])) =>
            /\ Range(calls[s]) \cap Pipelines = {}
            /\ pc[s] = "idle" => calls[s] = <<"check_etl_status">>

\* C19 (as claimed): a turn that finds the schema set and plan_approved unset
\* or revise invokes the planning pipeline.  (A turn that ends with these
\* values and ran no planning pipeline began with them.)
C19_PlanningWhenNotApproved ==
    \A s \in Sessions :
        (/\ pc[s] = "idle"
         /\ Has(state[s], "target_schema")
         /\ Cur(state[s], "plan_approved") \in {"unset", "revise"}) =>
            "etl_planning_pipeline" \in Range(calls[s])

\* a user turn of session s begins with feedback on the plan
PlanFeedbackTurn(s) ==
    /\ pc[s] = "idle"
    /\ turns'[s] = turns[s] + 1
    /\ msg'[s].kind = "plan_feedback"

C21_SqlFeedbackKeepsPlan ==
    \A s \in Sessions :
        (/\ msg[s].kind \in {"plan_feedback", "sql_feedback"}
         /\ Has(state[s], "sample_approved")
         /\ ~Has(state[s], "job_id")) =>
            /\ calls[s] = <<"etl_execution_pipeline">>
            /\ "etl_planning_pipeline" \notin Range(calls[s])

ValidateAgents == {"plan_validation_agent", "sql_validation_agent"}

ConfirmAgents == {"plan_confirmation_agent", "sql_confirmation_agent"}

\* the validate step of session s runs and approves
ValidatePasses(s) ==
    /\ pc[s] \in ValidateAgents
    /\ pc'[s] # pc[s]
    /\ Cur(state'[s], ApprovalKey(loop[s].name)) = "True"

\* C22: when the validate step of round k passes, the loop ends there: k
\* generate and k validate steps have run, the confirmation step is next,
\* and the ended loop runs no further generate or validate step.
C22_LoopExitsOnPass ==
    /\ [](\A s \in Sessions :
             loop[s].outcome = "Exited" =>
                 /\ loop[s].generated = loop[s].times_looped + 1
                 /\ loop[s].validated = loop[s].generated
                 /\ loop[s].generated <= LoopConfig(loop[s].name).max_iterations
                 /\ loop[s].ended = 1
                 /\ pc[s] \notin GenerateAgents \cup ValidateAgents)
    /\ [][\A s \in Sessions :
             /\ ValidatePasses(s) =>
                   /\ loop'[s].outcome = "Exited"
                   /\ loop'[s].generated = loop[s].generated
                   /\ loop'[s].validated = loop[s].validated + 1
                   /\ pc'[s] \in ConfirmAgents
             /\ (loop[s].outcome = "Exited" /\ loop'[s] # loop[s]) =>
                   loop'[s] = LoopStart(LoopConfig(loop'[s].name))]_vars

\* the SQL loop exited in its second round
C22_Witness ==
    \E s \in Sessions :
        /\ loop[s].name = "sql_revision_loop"
        /\ loop[s].outcome = "Exited"
        /\ loop[s].generated = 2
        /\ pc[s] = "sql_confirmation_agent"
        /\ Cur(state[s], "sample_approved") = "True"

\* C23: in a planning pipeline invocation the discovery step precedes the
\* first generate step, a validate step follows the generate step of its
\* round, and the confirmation step follows the end of the revision loop.
C23_PlanningOrder ==
    /\ [](\A s \in Sessions :
             /\ pc[s] = "transformation_planning_agent" =>
                   /\ loop[s].name = "plan_revision_loop"
                   /\ loop[s].outcome = "running"
                   /\ loop[s].generated = loop[s].validated
                   /\ Has(state[s], "source_tables")
             /\ pc[s] = "plan_validation_agent" =>
                   /\ loop[s].outcome = "running"
                   /\ loop[s].generated = loop[s].validated + 1
             /\ pc[s] = "plan_confirmation_agent" =>
                   /\ loop[s].name = "plan_revision_loop"
                   /\ loop[s].outcome \in {"Exited", "Exhausted"}
                   /\ loop[s].generated = loop[s].validated)
    /\ [][\A s \in Sessions :
             pc'[s] # pc[s] =>
                 /\ pc[s] = "table_discovery_agent" =>
                       /\ pc'[s] = "transformation_planning_agent"
                       /\ loop'[s].generated = 0
                       /\ Len(state'[s]["source_tables"]) =
                              Len(Get(state[s], "source_tables", <<>>)) + 1
                 /\ (pc'[s] = "transformation_planning_agent" /\ loop'[s].generated = 0) =>
                       pc[s] = "table_discovery_agent"
                 /\ pc'[s] = "plan_validation_agent" =>
                       pc[s] = "transformation_planning_agent"
                 /\ pc'[s] = "plan_confirmation_agent" =>
                       pc[s] = "plan_validation_agent"]_vars

\* a second planning invocation reaches the confirmation step after an exhausted loop
C23_Witness ==
    \E s \in Sessions :
        /\ pc[s] = "plan_confirmation_agent"
        /\ loop[s].outcome = "Exhausted"
        /\ Len(state[s]["source_tables"]) = 2
        /\ Len(state[s]["transformation_plan"]) >= 3

\* C24: right after a successful create_etl_job for a target, the session's
\* job_id and job_location are those of the registry entry of the target,
\* and both are the handle of the job just submitted.
C24_HandleMirrored ==
    (lastCall.op = "create_etl_job" /\ lastCall.result.status = "success") =>
        LET d == state[lastCall.session]
            t == lastCall.target
        IN  /\ Has(job_memory, t)
            /\ Has(d, "job_id")
            /\ Has(d, "job_location")
            /\ d["job_id"] = job_memory[t].job_id
            /\ d["job_location"] = job_memory[t].location
            /\ d["job_id"] = Len(jobs)
            /\ jobs[d["job_id"]] = [session |-> lastCall.session, target |-> t,
                                    location |-> d["job_location"]]

\* the session resubmits: its earlier job was for another target, elsewhere
C24_Witness ==
    /\ lastCall.op = "create_etl_job"
    /\ lastCall.result.status = "success"
    /\ \E j \in SessionJobs(jobs, lastCall.session) :
          /\ jobs[j].target # lastCall.target
          /\ jobs[j].location # state[lastCall.session]["job_location"]

\* C25: with no registry entry for the target (the process was restarted)
\* and job_id / job_location of a job for that target in the session state,
\* check_etl_status polls that job instead of returning the unknown-target
\* error; when the registry has an entry, the entry is polled.
C25_LookupSurvivesRestart ==
    IsCheck =>
        LET d == state[lastCall.session]
            t == lastCall.target
        IN  /\ Has(job_memory, t) => lastCall.polled = job_memory[t]
            /\ (/\ ~Has(job_memory, t)
                /\ Has(d, "job_id")
                /\ Has(d, "job_location")
                /\ jobs[d["job_id"]].target = t) =>
                    /\ lastCall.polled = [job_id |-> d["job_id"],
                                          location |-> d["job_location"]]
                    /\ ~UnknownTarget
                    /\ lastCall.result.status \in
                           {"running", "success", "failed", "error"}

\* after a restart the session's own job for the target is polled
C25_Witness ==
    /\ IsCheck
    /\ job_memory = EmptyDict
    /\ Submitted(lastCall.target)
    /\ lastCall.polled # NoJob
    /\ jobs[lastCall.polled.job_id].target = lastCall.target
    /\ jobs[lastCall.polled.job_id].session = lastCall.session
    /\ lastCall.result.status = "running"

\* C26: for a polled job whose poll succeeds the result is failed with the
\* engine's message when the job is DONE with an error result, success when
\* it is DONE without one, and running for every other job state.
C26_StatusMapping ==
    (IsCheck /\ lastCall.polled # NoJob /\ ~lastCall.poll.raised) =>
        LET p == lastCall.poll
            r == lastCall.result
        IN  /\ r.status \in {"failed", "success", "running"}
            /\ (r.status = "failed") <=> (p.state = "DONE" /\ p.error_result # "")
            /\ (r.status = "success") <=> (p.state = "DONE" /\ p.error_result = "")
            /\ (r.status = "running") <=> (p.state # "DONE")
            /\ (r.status = "failed") => (r.detail = p.error_result)

\* a job the engine reports as PENDING is reported as running
C26_Witness ==
    /\ IsCheck
    /\ Has(job_memory, lastCall.target)
    /\ lastCall.poll.state = "PENDING"
    /\ lastCall.result.status = "running"

\* C27 (as claimed): for every user input at least one of the eight
\* conditions matches.  (A finished turn without any call that left the state
\* as it found it: the conditions are evaluated on the state it began with.)
C27_SomeConditionMatches ==
    \A s \in Sessions :
        (pc[s] = "idle" /\ turns[s] >= 1 /\ calls[s] = <<>>) =>
            FirstMatch(state[s], msg[s]) # 0

\* C28 (as claimed): the job check_etl_status polls was submitted for the
\* target being queried.
C28_PolledJobIsForTarget ==
    (IsCheck /\ lastCall.polled # NoJob) =>
        jobs[lastCall.polled.job_id].target = lastCall.target

\* a check_etl_status call is made in this step
StatusCalled ==
    /\ lastCall'.op = "check_etl_status"
    /\ ncalls' = ncalls + 1

\* C29: check_etl_status changes neither the registry nor any session's
\* state, whatever it returns.
C29_StatusReadOnly ==
    [][StatusCalled =>
          /\ job_memory' = job_memory
          /\ state' = state
          /\ jobs' = jobs]_vars

\* a handle taken from the session state was polled, and the registry still has no entry
C29_Witness ==
    /\ IsCheck
    /\ lastCall.polled # NoJob
    /\ ~Has(job_memory, lastCall.target)
    /\ job_memory # EmptyDict
    /\ lastCall.result.status = "failed"

\* n is what follows the last "." of id (all of id when it has none)
IsLastComponentOf(n, id) ==
    /\ "." \notin Range(n)
    /\ \E k \in 0..Len(id) :
          /\ SubSeq(id, k + 1, Len(id)) = n
          /\ k = 0 \/ id[k] = "."

\* y is x without its leading and trailing whitespace
IsStripOf(y, x) ==
    /\ y # <<>> => ~IsSpace(y[1]) /\ ~IsSpace(y[Len(y)])
    /\ \E i \in 1..(Len(x) + 1), j \in 0..Len(x) :
          /\ y = SubSeq(x, i, j)
          /\ \A k \in 1..(i - 1) : IsSpace(x[k])
          /\ \A k \in (j + 1)..Len(x) : IsSpace(x[k])

\* C30: after a successful set_initial_target_table_info, target_table_name
\* is the last dot-separated component of target_table_id and target_schema
\* is the supplied text without leading and trailing whitespace.
C30_NameAndSchemaDerived ==
    \A s \in Sessions :
        /\ Has(state[s], "target_schema") =>
              IsLastComponentOf(state[s]["target_table_name"],
                                state[s]["target_table_id"])
        /\ (SchemaCaptured(s) /\ Has(state[s], "target_schema")) =>
              IsStripOf(state[s]["target_schema"], msg[s].text)

\* the first-token fallback on a text with whitespace around it
C30_Witness ==
    \E s \in Sessions :
        /\ SchemaCaptured(s)
        /\ msg[s].text = <<" ", "p", ".", "b", " ">>
        /\ state[s]["target_table_id"] = <<"p", ".", "b">>
        /\ state[s]["target_table_name"] = <<"b">>
        /\ state[s]["target_schema"] = <<"p", ".", "b">>

====
